---- MODULE Spec2Model ----
(***************************************************************************)
(* A model of chatjam.py: the pygame frame loop (events, result drain,     *)
(* bottom-up chat layout, click routing), the worker threads started per   *)
(* prompt, the result queue between them, and the text-to-speech threads.  *)
(*                                                                         *)
(* Text.  A Python string is modelled as a sequence of tokens, each token  *)
(* a TLA+ string holding a run of characters: a whitespace character       *)
(* (" ", "\n", "\t"), the fence of three backticks, a URL scheme           *)
(* ("http://", "https://") or a run of other characters.  Backticks occur  *)
(* only as fences and a scheme only as its own token; in a prompt a colon  *)
(* and each word that local_responder looks for is a token of its own.     *)
(* Len(token) is the number of characters of the token.                    *)
(***************************************************************************)
EXTENDS Integers, Sequences, FiniteSets, TLC

(***************************************************************************)
(* Program constants and the metrics of the fonts.                         *)
(***************************************************************************)
WIDTH == 800
HEIGHT == 600
\* font = SysFont(None, 22): advance of one glyph and line height
GlyphW == 8
FontH == 16
\* big = SysFont(None, 28): line height of the speaker label
BigH == 20
\* mono = SysFont('Consolas', 18): advance of one glyph and line height
MonoW == 10
MonoH == 21
\* chat[-40:]
TailTurns == 40

\* panel_rect = pygame.Rect(12, 12, WIDTH-24, HEIGHT-120)
panel_rect == [left |-> 12, top |-> 12, width |-> WIDTH - 24, height |-> HEIGHT - 120]
PanelBottom == panel_rect.top + panel_rect.height
\* panel_rect.width - 40, the width a prose line may take
UsableW == panel_rect.width - 40

None == -1

(***************************************************************************)
(* String helpers (str.strip, str.split, str.splitlines, re.split,         *)
(* re.finditer) on token sequences.                                        *)
(***************************************************************************)
\* the fence of three backticks, written with three quote characters here: a
\* TLA+ string cannot hold a backtick
FENCE == "'''"
Schemes == {"http://", "https://"}
IsSpace(t) == t \in {" ", "\n", "\t"}

RECURSIVE Chars(_)
Chars(s) == IF s = <<>> THEN 0 ELSE Len(Head(s)) + Chars(Tail(s))

\* font.render(s).get_width() and mono.render(s).get_width()
TextW(s) == GlyphW * Chars(s)
MonoTextW(s) == MonoW * Chars(s)

RECURSIVE LStrip(_)
LStrip(s) == IF s # <<>> /\ IsSpace(Head(s)) THEN LStrip(Tail(s)) ELSE s

RECURSIVE RStrip(_)
RStrip(s) ==
  IF s # <<>> /\ IsSpace(s[Len(s)]) THEN RStrip(SubSeq(s, 1, Len(s) - 1)) ELSE s

\* str.strip()
Strip(s) == RStrip(LStrip(s))

\* index of the first token of s, at or after position i, that is in set T; 0 if none
RECURSIVE FindFrom(_, _, _)
FindFrom(s, i, T) ==
  IF i > Len(s) THEN 0 ELSE IF s[i] \in T THEN i ELSE FindFrom(s, i + 1, T)

\* str.split(sep): every piece, empty pieces included
RECURSIVE SplitOn(_, _)
SplitOn(s, sep) ==
  LET k == FindFrom(s, 1, {sep})
  IN  IF k = 0 THEN <<s>>
      ELSE <<SubSeq(s, 1, k - 1)>> \o SplitOn(SubSeq(s, k + 1, Len(s)), sep)

\* str.splitlines(): split on line ends; no piece for the end of the string
splitlines(s) ==
  LET ps == SplitOn(s, "\n")
  IN  IF ps[Len(ps)] = <<>> THEN SubSeq(ps, 1, Len(ps) - 1) ELSE ps

\* re.split on the fenced-block pattern: prose, fenced block, prose, ...
RECURSIVE SplitFences(_)
SplitFences(s) ==
  LET a == FindFrom(s, 1, {FENCE})
      b == IF a = 0 THEN 0 ELSE FindFrom(s, a + 1, {FENCE})
  IN  IF b = 0 THEN <<s>>
      ELSE <<SubSeq(s, 1, a - 1), SubSeq(s, a, b)>>
             \o SplitFences(SubSeq(s, b + 1, Len(s)))

RECURSIVE LStripTicks(_)
LStripTicks(s) == IF s # <<>> /\ Head(s) = FENCE THEN LStripTicks(Tail(s)) ELSE s

RECURSIVE RStripTicks(_)
RStripTicks(s) ==
  IF s # <<>> /\ s[Len(s)] = FENCE THEN RStripTicks(SubSeq(s, 1, Len(s) - 1)) ELSE s

\* part.strip of the backtick character
StripTicks(s) == RStripTicks(LStripTicks(s))

\* last position of the run of non-whitespace tokens that starts at i
RECURSIVE RunEnd(_, _)
RunEnd(s, i) ==
  IF i < Len(s) /\ ~IsSpace(s[i + 1]) THEN RunEnd(s, i + 1) ELSE i

\* re.finditer(url_regex, line): the <<start, end>> of every match, a scheme
\* followed by one or more non-whitespace characters
RECURSIVE FindUrls(_, _)
FindUrls(s, i) ==
  LET k == FindFrom(s, i, Schemes)
  IN  IF k = 0 THEN <<>>
      ELSE IF k < Len(s) /\ ~IsSpace(s[k + 1])
           THEN <<(<<k, RunEnd(s, k)>>)>> \o FindUrls(s, RunEnd(s, k) + 1)
           ELSE FindUrls(s, k + 1)

RECURSIVE Reverse(_)
Reverse(s) == IF s = <<>> THEN <<>> ELSE Reverse(Tail(s)) \o <<Head(s)>>

(***************************************************************************)
(* Payloads: what a worker puts on result_q and what a chat turn holds.    *)
(* A str is [type "str", text]; a dict is [type "dict", keys, ...] with    *)
(* the values of the keys it has.  An image path is modelled by the time   *)
(* stamp in its name, ASSET_DIR / img_search_<stamp>.png.                  *)
(***************************************************************************)
Str(s) == [type |-> "str", keys |-> {}, text |-> s, image |-> None, query |-> <<>>]
ImageDict(s, path) ==
  [type |-> "dict", keys |-> {"text", "image"}, text |-> s, image |-> path, query |-> <<>>]
QueryDict(q) ==
  [type |-> "dict", keys |-> {"_image_query"}, text |-> <<>>, image |-> None, query |-> q]

\* str(x) of a payload that is drawn as text
StrOf(c) ==
  IF c.type = "str" THEN c.text
  ELSE <<"{'_image_query':", " ", "'">> \o c.query \o <<"'}">>

(***************************************************************************)
(* The layout pass of one frame (render chat from bottom up).  The pass    *)
(* threads st = [y, drawn, items, turn]: the vertical cursor, what was     *)
(* blitted on the screen, rendered_items, and the index in chat of the     *)
(* turn being laid out.                                                    *)
(***************************************************************************)
Blit(st, kind, x, y, w, h, txt) ==
  [st EXCEPT !.y = y,
             !.drawn = Append(@, [kind |-> kind, x |-> x, y |-> y, w |-> w, h |-> h,
                                  text |-> txt, turn |-> st.turn])]

Clickable(st, type, x, y, w, h, url, image) ==
  [st EXCEPT !.items = Append(@, [rect |-> [x |-> x, y |-> y, w |-> w, h |-> h],
                                  type |-> type, url |-> url, image |-> image])]

TextX == panel_rect.left + 16
CodeX == panel_rect.left + 24

\* "draw current line": a line flushed by the wrap, or a line without segments
DrawLine(st, line) ==
  Blit(st, "TextLine", TextX, st.y - (FontH + 6), TextW(line), FontH, line)

\* a wrap that never flushes: every word goes on the one line
RECURSIVE WrapWordsNoFlush(_, _, _)
WrapWordsNoFlush(st, words, line) ==
  IF words = <<>> THEN [st |-> st, line |-> line]
  ELSE WrapWordsNoFlush(st, Tail(words), Strip(line \o <<" ">> \o Head(words)))

\* for w in words: the greedy wrap; gives the pass and the line that remains
RECURSIVE WrapWords(_, _, _)
WrapWords(st, words, line) ==
  IF words = <<>> THEN [st |-> st, line |-> line]
  ELSE LET w == Head(words)
           test == Strip(line \o <<" ">> \o w)
       IN  IF TextW(test) > UsableW /\ line # <<>>
           THEN WrapWords(DrawLine(st, line), Tail(words), w)
           ELSE WrapWords(st, Tail(words), test)

\* for m in re.finditer(url_regex, line): pre, the link, the rest
RECURSIVE DrawUrls(_, _, _)
DrawUrls(st, line, ms) ==
  IF ms = <<>> THEN st
  ELSE LET m == Head(ms)
           pre == SubSeq(line, 1, m[1] - 1)
           url == SubSeq(line, m[1], m[2])
           rest == SubSeq(line, m[2] + 1, Len(line))
           y == st.y - (FontH + 6)
           s1 == Blit(st, "TextLine", TextX, y, TextW(pre), FontH, pre)
           ux == TextX + TextW(pre)
           s2 == Blit(s1, "LinkSpan", ux, y, TextW(url), FontH, url)
           s3 == Clickable(s2, "link", ux, y, TextW(url), FontH, url, None)
           s4 == IF Strip(rest) # <<>>
                 THEN Blit(s3, "TextLine", ux + TextW(url), y, TextW(rest), FontH, rest)
                 ELSE s3
       IN  DrawUrls(s4, line, Tail(ms))

\* if line: the line that remains; the else of the for loop runs when the loop
\* ends without break, which is always
DrawLast(st, line) ==
  IF line = <<>> THEN st
  ELSE DrawLine(DrawUrls(st, line, FindUrls(line, 1)), line)

ProsePart(st, part) ==
  LET r == WrapWords(st, SplitOn(part, " "), <<>>)
  IN  DrawLast(r.st, r.line)

\* for line in code.splitlines()[::-1]
RECURSIVE DrawCode(_, _)
DrawCode(st, lines) ==
  IF lines = <<>> THEN st
  ELSE DrawCode(Blit(st, "CodeLine", CodeX, st.y - (MonoH + 4),
                     MonoTextW(Head(lines)), MonoH, Head(lines)),
                Tail(lines))

CodePart(st, part) == DrawCode(st, Reverse(splitlines(StripTicks(part))))

IsFenced(part) == part # <<>> /\ Head(part) = FENCE /\ part[Len(part)] = FENCE

RECURSIVE DrawParts(_, _)
DrawParts(st, parts) ==
  IF parts = <<>> THEN st
  ELSE DrawParts(IF IsFenced(Head(parts)) THEN CodePart(st, Head(parts))
                 ELSE ProsePart(st, Head(parts)),
                 Tail(parts))

DrawText(st, c) == DrawParts(st, SplitFences(StrOf(c)))

\* the image branch; out is what pygame.image.load gave for the path: "fail" or
\* the <<width, height>> of the image
DrawImage(st, c, out) ==
  IF out = "fail"
  THEN Blit(st, "TextLine", TextX, st.y - (FontH + 6), TextW(c.text), FontH, c.text)
  ELSE LET max_w == panel_rect.width - 40
           w == IF out[1] > max_w THEN max_w ELSE out[1]
           h == IF out[1] > max_w THEN (out[2] * max_w) \div out[1] ELSE out[2]
           y == st.y - h
           s1 == Blit(st, "Image", TextX, y, w, h, c.text)
           s2 == Clickable(s1, "image", TextX, y, w, h, <<>>, c.image)
       IN  [s2 EXCEPT !.y = y - 12]

IsImage(c) == c.type = "dict" /\ "image" \in c.keys

LayoutTurn(st, turn, load) ==
  LET y == st.y - (BigH + 6)
      s1 == Blit(st, "Label", TextX, y, 0, BigH, <<turn.speaker, ":">>)
      s2 == [s1 EXCEPT !.y = y - 6]
  IN  IF IsImage(turn.content) THEN DrawImage(s2, turn.content, load[turn.content.image])
      ELSE DrawText(s2, turn.content)

\* a pass over the last turns that goes on whatever the cursor is
RECURSIVE LayoutTurnsNoBreak(_, _, _, _)
LayoutTurnsNoBreak(st, ch, k, load) ==
  IF k < 1 \/ k <= Len(ch) - TailTurns THEN st
  ELSE LayoutTurnsNoBreak(LayoutTurn([st EXCEPT !.turn = k], ch[k], load), ch, k - 1, load)

\* for speaker, text in reversed(chat[-40:]), with the break above the panel top
RECURSIVE LayoutTurns(_, _, _, _)
LayoutTurns(st, ch, k, load) ==
  IF k < 1 \/ k <= Len(ch) - TailTurns THEN st
  ELSE LET s1 == LayoutTurn([st EXCEPT !.turn = k], ch[k], load)
       IN  IF s1.y < panel_rect.top + 10 THEN s1
           ELSE LayoutTurns(s1, ch, k - 1, load)

LayoutChat(ch, load) ==
  LayoutTurns([y |-> PanelBottom - 12, drawn |-> <<>>, items |-> <<>>, turn |-> 0],
              ch, Len(ch), load)

\* itm['rect'].collidepoint((mx, my))
collidepoint(rect, p) ==
  /\ rect.x <= p[1] /\ p[1] < rect.x + rect.w
  /\ rect.y <= p[2] /\ p[2] < rect.y + rect.h

(***************************************************************************)
(* Bounds of the model.                                                    *)
(***************************************************************************)
\* prompts submitted, hence worker threads started
MaxTasks == 2
\* tokens in the input buffer
MaxInput == 1
\* presses of a Shift key
MaxToggles == 1
\* URLs the frame loop opens in the browser
MaxOpened == 1
\* seconds that pass on time.time()
MaxClock == 1
\* tokens of a prose answer that is followed on the screen
MaxProse == 4
\* tokens between the two fences of a code answer that is followed on the screen
MaxCode == 5

Tasks == 1..MaxTasks

\* what a text key event appends (ev.unicode)
Keys == {"/img", "hi", " "}
\* click positions besides those taken from the rectangles on screen
FarPoint == <<0, 0>>
\* what pygame.image.load can give for a file: a fault, or the image's size
ImgOutcomes == {"fail", <<100, 80>>, <<1000, 500>>}

VARIABLES
  input_text,      \* the input buffer
  chat,            \* the chat history: [speaker, content, id]; id is the task whose
                   \* result the turn holds (0: none), kept to tell envelopes apart
  use_openai,      \* the AI-mode flag of the frame loop
  signed_in,
  image_modal,     \* the image path shown in the modal, or None
  rendered_items,  \* the clickable items of the last layout pass
  drawn,           \* what the last layout pass blitted
  fpc,             \* where the frame loop is: "events", "drain" or "draw"
  result_q,        \* queue.Queue of [res, id]
  task,            \* the worker threads
  nthreads,        \* worker threads started
  speaking,        \* speak_text threads that are inside the tts engine
  clock,           \* int(time.time()) when it was last read
  written,         \* image files written and closed
  env,             \* the process environment and the optional packages
  ui_opened,       \* URLs the frame loop opened in the browser
  last_click       \* what the last click of this frame's event loop did

vars == <<input_text, chat, use_openai, signed_in, image_modal, rendered_items, drawn,
          fpc, result_q, task, nthreads, speaking, clock, written, env, ui_opened,
          last_click>>

(***************************************************************************)
(* Messages.                                                               *)
(***************************************************************************)
RECURSIVE Sentence(_)
Sentence(ws) ==
  IF Len(ws) <= 1 THEN ws ELSE <<Head(ws), " ">> \o Sentence(Tail(ws))

GREETING == Sentence(<<"hello", "i'm", "chatjam", "how", "can", "i", "help", "you", "today">>)
MSG_WEATHER ==
  Sentence(<<"I", "don't", "have", "live", "weather", "here,", "but", "remember", "to",
             "bring", "a", "jacket", "if", "it's", "cold!">>)
MSG_HELLO == Sentence(<<"Hello!", "How", "can", "I", "help", "you", "today?">>)
MSG_HELP ==
  Sentence(<<"This", "is", "a", "demo", "chatbot.", "You", "can", "ask", "simple", "questions",
             "or", "set", "OPENAI_API_KEY", "to", "use", "OpenAI.">>)
MSG_SORRY ==
  Sentence(<<"Sorry,", "I", "can't", "answer", "that", "locally.", "Try", "setting", "an",
             "OpenAI", "API", "key", "in", "your", "environment", "to", "get", "full",
             "answers.">>)
MSG_NOT_CONFIGURED ==
  Sentence(<<"OpenAI", "enabled", "but", "not", "configured:", "install", "openai",
             "package", "and", "set", "OPENAI_API_KEY", "to", "use", "it.">>)
MSG_USAGE(b) == Sentence(<<"OpenAI", "usage", "set", "to", IF b THEN "True" ELSE "False">>)
MSG_OPENED(q) == Sentence(<<"Opened", "browser", "for", "images:">>) \o <<" ">> \o q
MSG_FOUND(q) == Sentence(<<"Found", "image", "for">>) \o <<" ", "\"">> \o q \o <<"\"">>
MSG_FAILED == Sentence(<<"OpenAI", "request", "failed:", "timeout">>)

\* what openai.ChatCompletion.create can answer, stripped
Replies == {<<"a", " ", "http://", "a">>}

\* urllib.parse.quote(q)
QuoteTok(t) ==
  CASE t = " " -> "%20"
    [] t = ":" -> "%3A"
    [] t = "\"" -> "%22"
    [] t = "http://" -> "http%3A//"
    [] t = "https://" -> "https%3A//"
    [] OTHER -> t
quote(q) == [k \in DOMAIN q |-> QuoteTok(q[k])]

IMAGES_URL(q) == <<"https://", "www.google.com/search?tbm=isch&q=">> \o quote(q)
ACCOUNTS_URL == <<"https://", "accounts.google.com/">>

(***************************************************************************)
(* local_responder                                                         *)
(***************************************************************************)
\* str.lower() of a token
LowerTok(t) ==
  CASE t = "IMAGE" -> "image"
    [] t = "/IMG" -> "/img"
    [] t = "HI" -> "hi"
    [] OTHER -> t
lower(s) == [k \in DOMAIN s |-> LowerTok(s[k])]

\* kw in p, for a keyword that is a token of its own
Contains(p, kw) == \E k \in DOMAIN p : p[k] = kw

HasColon(s) == \E k \in DOMAIN s : s[k] = ":" \/ s[k] \in Schemes

\* prompt.split(':', 1)[1]: a scheme holds the colon as its fifth or sixth character
AfterColon(s) ==
  LET k == FindFrom(s, 1, {":"} \cup Schemes)
  IN  IF s[k] = ":" THEN SubSeq(s, k + 1, Len(s))
      ELSE <<"//">> \o SubSeq(s, k + 1, Len(s))

\* prompt.split(' ', 1)[1]
AfterSpace(s) == SubSeq(s, FindFrom(s, 1, {" "}) + 1, Len(s))

\* p.startswith('image:') or p.startswith('/img')
IsDirective(p) ==
  \/ Len(p) >= 2 /\ p[1] = "image" /\ p[2] = ":"
  \/ Len(p) >= 1 /\ p[1] = "/img"

ImageQuery(prompt) ==
  IF HasColon(prompt) THEN Strip(AfterColon(prompt))
  ELSE IF Contains(prompt, " ") THEN AfterSpace(prompt)
  ELSE <<>>

local_responder(prompt, now) ==
  LET p == Strip(lower(prompt))
  IN  IF IsDirective(p) THEN QueryDict(ImageQuery(prompt))
      ELSE IF Contains(p, "weather") THEN Str(MSG_WEATHER)
      ELSE IF Contains(p, "time")
           THEN Str(Sentence(<<"Local", "time", "is", ToString(now)>>))
      ELSE IF Contains(p, "hello") \/ Contains(p, "hi") THEN Str(MSG_HELLO)
      ELSE IF Contains(p, "help") THEN Str(MSG_HELP)
      ELSE Str(MSG_SORRY)

(***************************************************************************)
(* call_openai and worker_thread                                           *)
(***************************************************************************)
\* os.getenv('OPENAI_API_KEY'): unset (None), set to the empty string, or set
KeyUnset == "<unset>"
KeyValues == {KeyUnset, "", "sk-key"}
Truthy(k) == k \notin {KeyUnset, ""}

MSG_NO_PACKAGE ==
  Sentence(<<"OpenAI", "package", "not", "installed.", "Install", "openai", "to", "enable",
             "full", "responses.">>)
MSG_NO_KEY ==
  Sentence(<<"OpenAI", "API", "key", "not", "set", "in", "environment", "variable",
             "OPENAI_API_KEY.">>)

\* what the remote call does: it answers with a text, or it raises
OpenAIOutcomes == [ok : {TRUE}, text : Replies] \cup {[ok |-> FALSE, text |-> <<>>]}

call_openai(prompt, api_key, out) ==
  IF ~env.openai_pkg THEN MSG_NO_PACKAGE
  ELSE IF api_key = KeyUnset THEN MSG_NO_KEY
  ELSE IF out.ok THEN Strip(out.text)
  ELSE MSG_FAILED

\* the effect of a worker step: the next position, the envelope put (none or one),
\* the URL opened in the browser (none or one), whether call_openai was called,
\* the file opened for writing, and how the image search went
Effect(pc, put, opened, called, fname, search) ==
  [pc |-> pc, put |-> put, opened |-> opened, called |-> called, fname |-> fname,
   search |-> search]

\* a fallback that opens the browser and puts nothing on the queue
BrowserFallbackSilent(q, search) ==
  Effect("done", <<>>, <<IMAGES_URL(q)>>, FALSE, None, search)

\* webbrowser.open(images url); result_q.put('Opened browser for images: ...')
BrowserFallback(q, search) ==
  Effect("done", <<Str(MSG_OPENED(q))>>, <<IMAGES_URL(q)>>, FALSE, None, search)

\* a text path that does not look at the flag of the task
TextPathAnyMode(t, local, now, out, search) ==
  LET remote == Truthy(env.openai_key) /\ env.openai_pkg
  IN  Effect("done",
             <<IF remote THEN Str(call_openai(t.prompt, env.openai_key, out))
               ELSE IF local.type = "str" THEN local
               ELSE local_responder(t.prompt, now)>>,
             <<>>, remote, None, search)

\* the regular text response path
TextPath(t, local, now, out, search) ==
  LET api_key == IF t.use_openai THEN env.openai_key ELSE KeyUnset
      remote == t.use_openai /\ Truthy(api_key) /\ env.openai_pkg
  IN  Effect("done",
             <<IF remote THEN Str(call_openai(t.prompt, api_key, out))
               ELSE IF local.type = "str" THEN local
               ELSE local_responder(t.prompt, now)>>,
             <<>>, remote, None, search)

\* a worker that reads the flag of the frame loop when it runs, not the one it
\* was started with
worker_threadFrameFlag(t, now, srch, dl, out) ==
  LET local == local_responder(t.prompt, now)
      q == local.query
      tf == [t EXCEPT !.use_openai = use_openai]
  IN  IF local.type = "dict" /\ "_image_query" \in local.keys
      THEN IF env.google_creds
           THEN IF srch = "link"
                THEN IF dl = "ok"
                     THEN Effect("writing", <<>>, <<>>, FALSE, now, "link")
                     ELSE BrowserFallback(q, "dlfault")
                ELSE TextPath(tf, local, now, out, "nolink")
           ELSE BrowserFallback(q, "nocreds")
      ELSE TextPath(tf, local, now, out, "none")

\* worker_thread up to the file write; srch is what google_cse_image_search gives
\* ("link" or "nolink"), dl how the download goes ("ok" or "fault"), out what
\* the remote model does
worker_thread(t, now, srch, dl, out) ==
  LET local == local_responder(t.prompt, now)
      q == local.query
  IN  IF local.type = "dict" /\ "_image_query" \in local.keys
      THEN IF env.google_creds
           THEN IF srch = "link"
                THEN IF dl = "ok"
                     THEN Effect("writing", <<>>, <<>>, FALSE, now, "link")
                     ELSE BrowserFallback(q, "dlfault")
                ELSE TextPath(t, local, now, out, "nolink")
           ELSE BrowserFallback(q, "nocreds")
      ELSE TextPath(t, local, now, out, "none")

\* the file write and what follows it; ok: the write and the close went through
worker_write(t, now, ok) ==
  LET q == local_responder(t.prompt, now).query
  IN  IF ok
      THEN Effect("done", <<ImageDict(MSG_FOUND(q), t.fname)>>, <<>>, FALSE, t.fname, "found")
      ELSE BrowserFallback(q, "writefault")

Apply(i, e) ==
  /\ task' = [task EXCEPT ![i] = [@ EXCEPT !.pc = e.pc, !.fname = e.fname,
                                           !.called = e.called, !.opened = e.opened,
                                           !.search = e.search]]
  /\ result_q' = result_q \o [k \in DOMAIN e.put |-> [res |-> e.put[k], id |-> i]]

\* The collaborators a worker thread meets, and what each can do.
\* google_cse_image_search is called for a directive with credentials: it gives
\* a link or None.
SearchOutcomes(t) ==
  IF IsDirective(Strip(lower(t.prompt))) /\ env.google_creds THEN {"link", "nolink"}
  ELSE {"nolink"}
\* urlopen(link) and resp.read() are called for a link: they return or raise
DownloadOutcomes(srch) == IF srch = "link" THEN {"ok", "fault"} ELSE {"fault"}
\* openai.ChatCompletion.create is called on the text path of a task whose flag
\* is on, with a key and the package: it answers or raises
NoReply == [ok |-> FALSE, text |-> <<>>]
RemoteOutcomes(t, srch) ==
  IF /\ t.use_openai /\ Truthy(env.openai_key) /\ env.openai_pkg
     /\ ~(IsDirective(Strip(lower(t.prompt))) /\ (~env.google_creds \/ srch = "link"))
  THEN OpenAIOutcomes
  ELSE {NoReply}
\* time.time() and time.asctime() give the last value read or a later one; the
\* clock is read for the file name and for the local time
Times(t, srch, dl) ==
  IF (srch = "link" /\ dl = "ok") \/ Contains(Strip(lower(t.prompt)), "time")
  THEN clock..MaxClock
  ELSE {clock}

WorkerRun(i) ==
  /\ task[i].pc = "start"
  /\ \E srch \in SearchOutcomes(task[i]) :
       \E dl \in DownloadOutcomes(srch) :
         \E out \in RemoteOutcomes(task[i], srch), now \in Times(task[i], srch, dl) :
           /\ Apply(i, worker_thread(task[i], now, srch, dl, out))
           /\ clock' = now
  /\ UNCHANGED <<input_text, chat, use_openai, signed_in, image_modal, rendered_items,
                 drawn, fpc, nthreads, speaking, written, env, ui_opened, last_click>>

WorkerWrite(i) ==
  /\ task[i].pc = "writing"
  /\ \E ok \in BOOLEAN :
       /\ Apply(i, worker_write(task[i], clock, ok))
       /\ written' = IF ok THEN written \cup {task[i].fname} ELSE written
  /\ UNCHANGED <<input_text, chat, use_openai, signed_in, image_modal, rendered_items,
                 drawn, fpc, nthreads, speaking, clock, env, ui_opened, last_click>>

\* speak_text returns: engine.runAndWait() is over
SpeakDone ==
  /\ speaking > 0
  /\ speaking' = speaking - 1
  /\ UNCHANGED <<input_text, chat, use_openai, signed_in, image_modal, rendered_items,
                 drawn, fpc, result_q, task, nthreads, clock, written, env, ui_opened,
                 last_click>>

(***************************************************************************)
(* main: the frame loop                                                    *)
(***************************************************************************)
Turn(speaker, content, id) == [speaker |-> speaker, content |-> content, id |-> id]

\* sign_rect = None, and nothing assigns it afterwards
sign_rect == None

\* a hit test that falls back on the first item when no rect holds p
RECURSIVE FirstHitOrFirst(_, _, _)
FirstHitOrFirst(items, k, p) ==
  IF k > Len(items) THEN (IF items = <<>> THEN 0 ELSE 1)
  ELSE IF collidepoint(items[k].rect, p) THEN k
  ELSE FirstHitOrFirst(items, k + 1, p)

\* the first of rendered_items whose rect holds p (0: none)
RECURSIVE FirstHit(_, _, _)
FirstHit(items, k, p) ==
  IF k > Len(items) THEN 0
  ELSE IF collidepoint(items[k].rect, p) THEN k
  ELSE FirstHit(items, k + 1, p)

ClickEffect(modal, signed, opened, ev) ==
  [modal |-> modal, signed |-> signed, opened |-> opened, ev |-> ev]

\* a click handler that looks at the items before it looks at the modal
on_clickThrough(p) ==
  LET k == FirstHit(rendered_items, 1, p)
  IN  IF k # 0 /\ rendered_items[k].type = "link"
      THEN ClickEffect(None, signed_in, <<rendered_items[k].url>>, "link")
      ELSE IF image_modal # None THEN ClickEffect(None, signed_in, <<>>, "modal")
      ELSE IF k # 0 /\ rendered_items[k].type = "image"
      THEN ClickEffect(rendered_items[k].image, signed_in, <<>>, "image")
      ELSE ClickEffect(image_modal, signed_in, <<>>, "miss")

\* MOUSEBUTTONDOWN with button 1 at p
on_click(p) ==
  IF image_modal # None THEN ClickEffect(None, signed_in, <<>>, "modal")
  ELSE IF sign_rect # None /\ collidepoint(sign_rect, p)
  THEN ClickEffect(image_modal, TRUE, <<ACCOUNTS_URL>>, "sign")
  ELSE LET k == FirstHit(rendered_items, 1, p)
       IN  IF k = 0 THEN ClickEffect(image_modal, signed_in, <<>>, "miss")
           ELSE IF rendered_items[k].type = "link"
           THEN ClickEffect(image_modal, signed_in, <<rendered_items[k].url>>, "link")
           ELSE IF rendered_items[k].type = "image"
           THEN ClickEffect(rendered_items[k].image, signed_in, <<>>, "image")
           ELSE ClickEffect(image_modal, signed_in, <<>>, "miss")

\* where a click can land: on the top left pixel of an item, on the first pixel
\* to the right of it, on the pixel under its bottom left, or far from all
ClickPoints ==
  {FarPoint}
    \cup {<<rendered_items[k].rect.x, rendered_items[k].rect.y>> : k \in DOMAIN rendered_items}
    \cup {<<rendered_items[k].rect.x + rendered_items[k].rect.w, rendered_items[k].rect.y>> :
            k \in DOMAIN rendered_items}
    \cup {<<rendered_items[k].rect.x, rendered_items[k].rect.y + rendered_items[k].rect.h>> :
            k \in DOMAIN rendered_items}

Click(p) ==
  /\ fpc = "events"
  /\ LET e == on_click(p)
     IN  /\ Len(ui_opened \o e.opened) <= MaxOpened
         /\ image_modal' = e.modal
         /\ signed_in' = e.signed
         /\ ui_opened' = ui_opened \o e.opened
         /\ last_click' = e.ev
  /\ UNCHANGED <<input_text, chat, use_openai, rendered_items, drawn, fpc, result_q, task,
                 nthreads, speaking, clock, written, env>>

\* K_BACKSPACE: input_text[:-1]
KeyBackspace ==
  /\ fpc = "events"
  /\ input_text' = SubSeq(input_text, 1, Len(input_text) - 1)
  /\ UNCHANGED <<chat, use_openai, signed_in, image_modal, rendered_items, drawn, fpc,
                 result_q, task, nthreads, speaking, clock, written, env, ui_opened,
                 last_click>>

NewTask(prompt, mode) ==
  [pc |-> "start", prompt |-> prompt, use_openai |-> mode, fname |-> None,
   called |-> FALSE, opened |-> <<>>, search |-> "none"]
IdleTask == [NewTask(<<>>, FALSE) EXCEPT !.pc = "idle"]

\* an Enter that starts the worker thread and leaves the chat as it is
KeyReturnNoTurn ==
  /\ fpc = "events"
  /\ Strip(input_text) # <<>> => nthreads < MaxTasks
  /\ IF Strip(input_text) # <<>>
     THEN /\ task' = [task EXCEPT ![nthreads + 1] = NewTask(input_text, use_openai)]
          /\ nthreads' = nthreads + 1
          /\ input_text' = <<>>
     ELSE UNCHANGED <<task, nthreads, input_text>>
  /\ UNCHANGED <<chat, use_openai, signed_in, image_modal, rendered_items, drawn, fpc,
                 result_q, speaking, clock, written, env, ui_opened, last_click>>

\* an Enter that submits every buffer that is not empty, blank or not
KeyReturnAnyBuffer ==
  /\ fpc = "events"
  /\ input_text # <<>> => nthreads < MaxTasks
  /\ IF input_text # <<>>
     THEN /\ chat' = Append(chat, Turn("You", Str(input_text), 0))
          /\ task' = [task EXCEPT ![nthreads + 1] = NewTask(input_text, use_openai)]
          /\ nthreads' = nthreads + 1
          /\ input_text' = <<>>
     ELSE UNCHANGED <<chat, task, nthreads, input_text>>
  /\ UNCHANGED <<use_openai, signed_in, image_modal, rendered_items, drawn, fpc, result_q,
                 speaking, clock, written, env, ui_opened, last_click>>

\* K_RETURN: a non-blank buffer is appended as a turn, a worker thread is started
\* with the buffer and the flag, and the buffer is emptied
KeyReturn ==
  /\ fpc = "events"
  /\ Strip(input_text) # <<>> => nthreads < MaxTasks
  /\ IF Strip(input_text) # <<>>
     THEN /\ chat' = Append(chat, Turn("You", Str(input_text), 0))
          /\ task' = [task EXCEPT ![nthreads + 1] = NewTask(input_text, use_openai)]
          /\ nthreads' = nthreads + 1
          /\ input_text' = <<>>
     ELSE UNCHANGED <<chat, task, nthreads, input_text>>
  /\ UNCHANGED <<use_openai, signed_in, image_modal, rendered_items, drawn, fpc, result_q,
                 speaking, clock, written, env, ui_opened, last_click>>

\* another key with a non-empty ev.unicode
KeyText(u) ==
  /\ fpc = "events"
  /\ Len(input_text) < MaxInput
  /\ input_text' = Append(input_text, u)
  /\ UNCHANGED <<chat, use_openai, signed_in, image_modal, rendered_items, drawn, fpc,
                 result_q, task, nthreads, speaking, clock, written, env, ui_opened,
                 last_click>>

\* the notice a Shift key puts in the chat; b is the flag after the toggle
ToggleNotice(b) ==
  IF b /\ (~env.openai_pkg \/ env.openai_key = KeyUnset) THEN MSG_NOT_CONFIGURED
  ELSE MSG_USAGE(b)

\* the turns that Shift keys appended
Notices(ch) ==
  {k \in DOMAIN ch : k > 1 /\ ch[k].speaker = "Bot" /\ ch[k].id = 0}

\* K_LSHIFT, K_RSHIFT: ev.unicode is empty, the flag is toggled
KeyShift ==
  /\ fpc = "events"
  /\ Cardinality(Notices(chat)) < MaxToggles
  /\ use_openai' = ~use_openai
  /\ chat' = Append(chat, Turn("Bot", Str(ToggleNotice(~use_openai)), 0))
  /\ UNCHANGED <<input_text, signed_in, image_modal, rendered_items, drawn, fpc, result_q,
                 task, nthreads, speaking, clock, written, env, ui_opened, last_click>>

\* pygame.event.get() is exhausted
EndEvents ==
  /\ fpc = "events"
  /\ fpc' = "drain"
  /\ last_click' = "none"
  /\ UNCHANGED <<input_text, chat, use_openai, signed_in, image_modal, rendered_items,
                 drawn, result_q, task, nthreads, speaking, clock, written, env,
                 ui_opened>>

\* whether the frame loop starts a speak_text thread for res
Speaks(res) ==
  IF res.type = "dict" /\ "image" \in res.keys THEN "text" \in res.keys /\ env.tts_engine
  ELSE env.tts_engine /\ res.type = "str"

\* a drain that puts the result at the head of the chat
DrainGetInsert ==
  /\ fpc = "drain"
  /\ result_q # <<>>
  /\ result_q' = Tail(result_q)
  /\ chat' = <<Turn("Bot", Head(result_q).res, Head(result_q).id)>> \o chat
  /\ speaking' = IF Speaks(Head(result_q).res) THEN speaking + 1 ELSE speaking
  /\ UNCHANGED <<input_text, use_openai, signed_in, image_modal, rendered_items, drawn,
                 fpc, task, nthreads, clock, written, env, ui_opened, last_click>>

\* result_q.get_nowait() gives an envelope
DrainGet ==
  /\ fpc = "drain"
  /\ result_q # <<>>
  /\ result_q' = Tail(result_q)
  /\ chat' = Append(chat, Turn("Bot", Head(result_q).res, Head(result_q).id))
  /\ speaking' = IF Speaks(Head(result_q).res) THEN speaking + 1 ELSE speaking
  /\ UNCHANGED <<input_text, use_openai, signed_in, image_modal, rendered_items, drawn,
                 fpc, task, nthreads, clock, written, env, ui_opened, last_click>>

ImagePaths(ch) == {ch[k].content.image : k \in {j \in DOMAIN ch : IsImage(ch[j].content)}}

\* a drain that waits on the empty queue, as result_q.get() would
DrainBlocking ==
  /\ fpc = "drain"
  /\ result_q = <<>>
  /\ FALSE
  /\ UNCHANGED vars

\* result_q.get_nowait() raises queue.Empty
DrainEmpty ==
  /\ fpc = "drain"
  /\ result_q = <<>>
  /\ fpc' = "draw"
  /\ UNCHANGED <<input_text, chat, use_openai, signed_in, image_modal, rendered_items,
                 drawn, result_q, task, nthreads, speaking, clock, written, env,
                 ui_opened, last_click>>

\* a layout pass that does not empty rendered_items before it emits
DrawKeep ==
  /\ fpc = "draw"
  /\ \E load \in [ImagePaths(chat) -> ImgOutcomes] :
       LET st == LayoutChat(chat, load)
       IN  /\ rendered_items' = rendered_items \o st.items
           /\ drawn' = st.drawn
  /\ fpc' = "events"
  /\ UNCHANGED <<input_text, chat, use_openai, signed_in, image_modal, result_q, task,
                 nthreads, speaking, clock, written, env, ui_opened, last_click>>

\* the draw half of the frame: the layout pass, and back to the events
Draw ==
  /\ fpc = "draw"
  /\ \E load \in [ImagePaths(chat) -> ImgOutcomes] :
       LET st == LayoutChat(chat, load)
       IN  /\ rendered_items' = st.items
           /\ drawn' = st.drawn
  /\ fpc' = "events"
  /\ UNCHANGED <<input_text, chat, use_openai, signed_in, image_modal, result_q, task,
                 nthreads, speaking, clock, written, env, ui_opened, last_click>>

\* the draw half of the frame where the screen is not followed: the layout pass
\* reads chat and writes rendered_items and drawn, which the click handler alone
\* reads
DrawUnseen ==
  /\ fpc = "draw"
  /\ fpc' = "events"
  /\ UNCHANGED <<input_text, chat, use_openai, signed_in, image_modal, rendered_items,
                 drawn, result_q, task, nthreads, speaking, clock, written, env,
                 ui_opened, last_click>>

Envs ==
  [openai_key : KeyValues, openai_pkg : BOOLEAN, google_creds : BOOLEAN,
   tts_engine : BOOLEAN]

Init ==
  /\ env \in Envs
  /\ input_text = <<>>
  /\ chat = <<Turn("Bot", Str(GREETING), 0)>>
  /\ use_openai = (env.openai_key # KeyUnset /\ env.openai_pkg)
  /\ signed_in = FALSE
  /\ image_modal = None
  /\ rendered_items = <<>>
  /\ drawn = <<>>
  /\ fpc = "events"
  /\ result_q = <<>>
  /\ task = [i \in Tasks |-> IdleTask]
  /\ nthreads = 0
  /\ speaking = 0
  /\ clock = 0
  /\ written = {}
  /\ ui_opened = <<>>
  /\ last_click = "none"

(***************************************************************************)
(* Spec: the response pipeline.  Key events, the worker threads, the       *)
(* result queue, the drain and the speech threads, from the state after    *)
(* construction.  Clicks are left out and the screen is not followed.      *)
(***************************************************************************)
Next ==
  \/ KeyBackspace
  \/ KeyReturn
  \/ \E u \in Keys : KeyText(u)
  \/ KeyShift
  \/ EndEvents
  \/ DrainGet
  \/ DrainEmpty
  \/ DrawUnseen
  \/ \E i \in Tasks : WorkerRun(i)
  \/ \E i \in Tasks : WorkerWrite(i)
  \/ SpeakDone

Spec == Init /\ [][Next]_vars

(***************************************************************************)
(* Fairness.  pygame.event.get() gives a finite list, get_nowait() and the *)
(* draw return: the frame loop always takes its next step.  A worker       *)
(* thread is scheduled, and its network calls return or time out.          *)
(***************************************************************************)
FrameStep == EndEvents \/ DrainGet \/ DrainEmpty \/ DrawUnseen
\* a thread that can run does: the other threads end after two steps at most
WorkerStep == \E i \in Tasks : WorkerRun(i) \/ WorkerWrite(i)

\* the frame loop is fair, the worker threads may block for ever
FrameFairSpec == Init /\ [][Next]_vars /\ WF_vars(FrameStep)

\* WorkerStep is enabled exactly when a thread is between its start and its put,
\* and a step is a WorkerStep exactly when it moves such a thread
WorkerCanRun == \E i \in Tasks : task[i].pc \in {"start", "writing"}
WorkerMoved ==
  \E i \in Tasks : task[i].pc \in {"start", "writing"} /\ task'[i].pc # task[i].pc
\* WF_vars(WorkerStep), written out with the two equivalents above
WorkerFair == []<>(~WorkerCanRun) \/ []<><<WorkerMoved>>_vars

\* the frame loop and the worker threads are fair
LiveSpec == Init /\ [][Next]_vars /\ WF_vars(FrameStep) /\ WorkerFair

(***************************************************************************)
(* UISpec: the screen.  The frame loop with its clicks and its layout      *)
(* pass, from the states the pipeline leaves when its tasks are done and   *)
(* drained: one task whose prompt "hi" the remote model answered with a    *)
(* text of ScreenTexts, or an image task and a text task.                  *)
(***************************************************************************)
\* two words without a space in them, 50 and 95 characters long: 400 and 760
\* pixels wide, the usable width being 736
Word50 == "aaaaaaaaaabbbbbbbbbbccccccccccddddddddddeeeeeeeeee"
Word95 ==
  "aaaaaaaaaabbbbbbbbbbccccccccccddddddddddeeeeeeeeeeffffffffffgggggggggghhhhhhhhhhiiiiiiiiiijjjjj"
ProseTokens == {" ", "http://", "a", Word50, Word95}
CodeTokens == {"\n", "line1", "line2"}
SeqsUpTo(A, n) == UNION {[1..k -> A] : k \in 0..n}

\* resp.choices[0].message.content.strip(): prose, or one fenced block
ProseTexts == {t \in SeqsUpTo(ProseTokens, MaxProse) : Strip(t) = t}
CodeTexts == {<<FENCE>> \o t \o <<FENCE>> : t \in SeqsUpTo(CodeTokens, MaxCode)}
ScreenTexts == ProseTexts \cup CodeTexts

UIEnv ==
  [openai_key |-> "sk-key", openai_pkg |-> TRUE, google_creds |-> TRUE,
   tts_engine |-> FALSE]

DoneText == [NewTask(<<"hi">>, TRUE) EXCEPT !.pc = "done", !.called = TRUE]
DoneImage ==
  [NewTask(<<"/img">>, TRUE) EXCEPT !.pc = "done", !.fname = 0, !.search = "found"]

\* "hi", answered by the remote model with t
TextHistory(t) ==
  <<Turn("Bot", Str(GREETING), 0), Turn("You", Str(<<"hi">>), 0), Turn("Bot", Str(t), 1)>>
\* "/img", found and written as image 0, then "hi", answered with t
ImageHistory(t) ==
  <<Turn("Bot", Str(GREETING), 0), Turn("You", Str(<<"/img">>), 0),
    Turn("Bot", ImageDict(MSG_FOUND(<<>>), 0), 1), Turn("You", Str(<<"hi">>), 0),
    Turn("Bot", Str(t), 2)>>

UIInit ==
  /\ env = UIEnv
  /\ input_text = <<>>
  /\ use_openai = TRUE
  /\ signed_in = FALSE
  /\ image_modal = None
  /\ rendered_items = <<>>
  /\ drawn = <<>>
  /\ fpc = "events"
  /\ result_q = <<>>
  /\ speaking = 0
  /\ clock = 0
  /\ ui_opened = <<>>
  /\ last_click = "none"
  /\ \/ /\ \E t \in ScreenTexts : chat = TextHistory(t)
        /\ task = [i \in Tasks |-> IF i = 1 THEN DoneText ELSE IdleTask]
        /\ nthreads = 1
        /\ written = {}
     \/ /\ \E t \in Replies : chat = ImageHistory(t)
        /\ task = [i \in Tasks |-> IF i = 1 THEN DoneImage
                                   ELSE IF i = 2 THEN DoneText ELSE IdleTask]
        /\ nthreads = 2
        /\ written = {0}

UINext ==
  \/ \E p \in ClickPoints : Click(p)
  \/ EndEvents
  \/ DrainEmpty
  \/ Draw

UISpec == UIInit /\ [][UINext]_vars

(***************************************************************************)
(* The claims.                                                             *)
(***************************************************************************)
Started(i) == task[i].pc # "idle"
\* the turns of the chat that hold the result of task i, and its envelopes queued
Delivered(i) == {k \in DOMAIN chat : chat[k].id = i /\ chat[k].speaker = "Bot"}
Queued(i) == {k \in DOMAIN result_q : result_q[k].id = i}
Matches(i) == IsDirective(Strip(lower(task[i].prompt)))
QueryOf(i) == ImageQuery(task[i].prompt)
\* the payloads task i has produced, wherever they are
EnvelopesOf(i) ==
  {chat[k].content : k \in Delivered(i)} \cup {result_q[k].res : k \in Queued(i)}

\* C1: every submitted prompt gives exactly one envelope, which the drain removes
\* and appends to the chat as a Bot turn exactly once: at any time a finished
\* task has one envelope, queued or delivered, an unfinished task has none, and
\* again and again every task started so far is delivered once with nothing of
\* it left queued (so no started task stays undelivered for ever).
C1_AllDeliveredOnce ==
  /\ [](\A i \in Tasks :
          Cardinality(Delivered(i)) + Cardinality(Queued(i))
            = IF task[i].pc = "done" THEN 1 ELSE 0)
  /\ []<>(\A i \in Tasks :
            Started(i) => Cardinality(Delivered(i)) = 1 /\ Queued(i) = {})

\* all MaxTasks prompts were submitted and each result is in the chat once
C1_Witness ==
  /\ nthreads = MaxTasks
  /\ \A i \in Tasks : Cardinality(Delivered(i)) = 1 /\ Queued(i) = {}

\* C2: a task whose prompt matches an image directive never calls call_openai.
C2_DirectiveNeverCallsRemote ==
  \A i \in Tasks : Started(i) /\ Matches(i) => ~task[i].called

SearchFailed == {"nolink", "dlfault", "writefault"}

\* C3: a directive task whose image search failed (no link, a download fault or
\* a write fault) has, once it is done, opened the browser on the images URL of
\* its query and produced the notice of that as its one envelope.
C3_FailureOpensBrowser ==
  \A i \in Tasks :
    Matches(i) /\ task[i].pc = "done" /\ task[i].search \in SearchFailed
      => /\ task[i].opened = <<IMAGES_URL(QueryOf(i))>>
         /\ EnvelopesOf(i) = {Str(MSG_OPENED(QueryOf(i)))}

\* a str, or a dict with an image path that names a written file
WellFormed(res) ==
  \/ res.type = "str"
  \/ res.type = "dict" /\ "image" \in res.keys /\ res.image # None /\ res.image \in written

\* C4: every envelope on the queue, and every one appended to the chat, is a
\* text or an image record whose path names a file that was written.
C4_EnvelopesWellFormed ==
  \A i \in Tasks : \A e \in EnvelopesOf(i) : WellFormed(e)

\* C5: no two worker threads write the same image file at the same time, and no
\* two speak_text threads are in the tts engine at the same time.
C5_NoSharedWrites ==
  /\ \A i, j \in Tasks :
       i # j /\ task[i].pc = "writing" /\ task[j].pc = "writing"
         => task[i].fname # task[j].fname
  /\ speaking <= 1

\* C6: the frame loop goes through its event loop, its drain and its draw again
\* and again, whatever the worker threads do.
C6_FrameLoopNeverWaits ==
  /\ []<>(fpc = "events")
  /\ []<>(fpc = "drain")
  /\ []<>(fpc = "draw")

\* the drain found the queue empty and went on to draw while a task is running
C6_Witness ==
  /\ fpc = "draw"
  /\ \E i \in Tasks : task[i].pc \in {"start", "writing"}

\* the layout pass has run on the chat of this state (in UISpec chat stays)
Laid == drawn # <<>>
TextOf(k) == chat[k].content.text
\* the turns whose content is a text without a fence
ProseTurns ==
  {k \in DOMAIN chat : chat[k].content.type = "str" /\ FindFrom(TextOf(k), 1, {FENCE}) = 0}
\* what the pass blitted of one kind for turn k
DrawnOf(k, kind) == {j \in DOMAIN drawn : drawn[j].turn = k /\ drawn[j].kind = kind}

\* C7: a click that arrives while an image modal is active clears the modal and
\* does nothing else, wherever it lands: no URL is opened, signed_in stays, no
\* modal is set, the chat and the tasks stay.  (In UISpec the steps that stay in
\* the event loop are the clicks.)
C7_ModalClickOnlyDismisses ==
  [][fpc = "events" /\ fpc' = "events" /\ image_modal # None
       => /\ image_modal' = None
          /\ UNCHANGED <<ui_opened, signed_in, chat, input_text, use_openai, rendered_items,
                         result_q, task, nthreads>>]_vars

\* a click has dismissed the modal while a link and an image were on the screen
C7_Witness ==
  /\ last_click = "modal"
  /\ image_modal = None
  /\ \E k \in DOMAIN rendered_items : rendered_items[k].type = "link"
  /\ \E k \in DOMAIN rendered_items : rendered_items[k].type = "image"

UrlAt(s, m) == SubSeq(s, m[1], m[2])

\* C8: after the layout pass every URL of a prose turn has exactly one LinkSpan
\* (the turn has as many LinkSpans as URLs, one with the text of each), and with
\* no modal active a click in the box of that LinkSpan opens exactly that URL.
C8_EveryUrlOneLinkSpan ==
  Laid =>
    \A k \in ProseTurns :
      LET ms == FindUrls(TextOf(k), 1)
      IN  /\ Cardinality(DrawnOf(k, "LinkSpan")) = Len(ms)
          /\ \A n \in DOMAIN ms :
               \E j \in DrawnOf(k, "LinkSpan") :
                 /\ drawn[j].text = UrlAt(TextOf(k), ms[n])
                 /\ image_modal = None
                      => on_click(<<drawn[j].x, drawn[j].y>>).opened
                           = <<UrlAt(TextOf(k), ms[n])>>

\* every line and link of turn k ends within the usable width
WithinUsable(k) ==
  \A j \in DrawnOf(k, "TextLine") \cup DrawnOf(k, "LinkSpan") :
    drawn[j].x + drawn[j].w <= TextX + UsableW
UrlTooLong(s) ==
  \E n \in DOMAIN FindUrls(s, 1) : TextW(UrlAt(s, FindUrls(s, 1)[n])) > UsableW
NoLongWord(s) ==
  \A n \in DOMAIN SplitOn(s, " ") : TextW(SplitOn(s, " ")[n]) <= UsableW

\* C9 as stated: a prose turn without a URL wider than the usable width has
\* every line within the usable width.
C9_NoLongUrlWithinUsable ==
  Laid => \A k \in ProseTurns : ~UrlTooLong(TextOf(k)) => WithinUsable(k)

\* C9, amended: a prose turn in which no word between spaces, URL or not, is
\* wider than the usable width has every line, flushed or last, within the
\* usable width.
C9_NoLongWordWithinUsable ==
  Laid => \A k \in ProseTurns : NoLongWord(TextOf(k)) => WithinUsable(k)

\* the wrap has flushed a line: a turn without URLs and without a long word was
\* laid out on two lines or more
C9_Witness ==
  /\ Laid
  /\ \E k \in ProseTurns :
       /\ NoLongWord(TextOf(k))
       /\ FindUrls(TextOf(k), 1) = <<>>
       /\ Cardinality(DrawnOf(k, "TextLine")) >= 2

\* a fence, a line end, then source lines each closed by a line end, a fence
IsBlock(t) ==
  /\ Len(t) >= 5
  /\ Len(t) % 2 = 1
  /\ t[1] = FENCE /\ t[Len(t)] = FENCE
  /\ \A i \in 2..(Len(t) - 1) : (t[i] = "\n") <=> (i % 2 = 0)
SourceLines(t) == [n \in 1..((Len(t) - 3) \div 2) |-> <<t[2 * n + 1]>>]
IsCodeLineOf(d, k) == d.turn = k /\ d.kind = "CodeLine"

\* C10: a turn that holds one fenced block with k source lines gets exactly k
\* CodeLines, one per source line, each source line below the one before it.
C10_OneCodeLinePerSourceLine ==
  Laid =>
    \A k \in DOMAIN chat :
      chat[k].content.type = "str" /\ IsBlock(TextOf(k)) =>
        LET src == SourceLines(TextOf(k))
            cl == SelectSeq(drawn, LAMBDA d : IsCodeLineOf(d, k))
        IN  /\ Len(cl) = Len(src)
            /\ \A n \in DOMAIN src :
                 /\ cl[Len(src) + 1 - n].text = src[n]
                 /\ n > 1 => cl[Len(src) + 1 - n].y > cl[Len(src) + 2 - n].y

(***************************************************************************)
(* PromptSpec: one prompt.  The state after Enter on a buffer that holds a *)
(* prompt of Prompts, typed after the Shift key was or was not pressed,    *)
(* then the worker thread of the prompt and the frame loop that drains its *)
(* result.  No speech engine, no further key.                              *)
(***************************************************************************)
\* tokens in a prompt that is followed from its submission
MaxPrompt == 4
PromptTokens == {" ", "/img", "image", "IMAGE", ":", "cats", "hello"}
\* what Enter submits: input_text.strip() is not empty
Prompts == {t \in SeqsUpTo(PromptTokens, MaxPrompt) : Strip(t) # <<>>}
PromptEnvs == {e \in Envs : ~e.tts_engine}

PromptInit ==
  /\ env \in PromptEnvs
  /\ \E tog \in BOOLEAN, t \in Prompts :
       LET on0 == (env.openai_key # KeyUnset /\ env.openai_pkg)
           on == IF tog THEN ~on0 ELSE on0
       IN  /\ use_openai = on
           /\ chat = <<Turn("Bot", Str(GREETING), 0)>>
                       \o (IF tog THEN <<Turn("Bot", Str(ToggleNotice(on)), 0)>> ELSE <<>>)
                       \o <<Turn("You", Str(t), 0)>>
           /\ task = [i \in Tasks |-> IF i = 1 THEN NewTask(t, on) ELSE IdleTask]
  /\ input_text = <<>>
  /\ signed_in = FALSE
  /\ image_modal = None
  /\ rendered_items = <<>>
  /\ drawn = <<>>
  /\ fpc = "events"
  /\ result_q = <<>>
  /\ nthreads = 1
  /\ speaking = 0
  /\ clock = 0
  /\ written = {}
  /\ ui_opened = <<>>
  /\ last_click = "none"

PromptNext ==
  \/ \E i \in Tasks : WorkerRun(i)
  \/ \E i \in Tasks : WorkerWrite(i)
  \/ EndEvents
  \/ DrainGet
  \/ DrainEmpty
  \/ DrawUnseen

PromptSpec == PromptInit /\ [][PromptNext]_vars

\* the text of a directive prompt that follows the directive, trimmed
DirectiveRest(prompt) ==
  LET p == Strip(prompt)
  IN  IF LowerTok(p[1]) = "/img" THEN Strip(Tail(p)) ELSE Strip(SubSeq(p, 3, Len(p)))

\* C11: a directive task that ran without search credentials has produced one
\* envelope, the notice of the opened browser for the text that follows the
\* directive, has opened the browser once on the images URL of that text, has
\* attempted no search and has written no file.
C11_NoCredsOpensBrowserOnQuery ==
  \A i \in Tasks :
    Matches(i) /\ ~env.google_creds /\ task[i].pc = "done"
      => /\ EnvelopesOf(i) = {Str(MSG_OPENED(DirectiveRest(task[i].prompt)))}
         /\ Cardinality(Delivered(i)) + Cardinality(Queued(i)) = 1
         /\ task[i].opened = <<IMAGES_URL(DirectiveRest(task[i].prompt))>>
         /\ task[i].search = "nocreds"
         /\ written = {}

\* the flag of task i is on, a key is set and not empty, the package is there
RemoteConfigured(i) == task[i].use_openai /\ Truthy(env.openai_key) /\ env.openai_pkg
RemoteResults == {Str(t) : t \in Replies} \cup {Str(MSG_FAILED)}

\* C12: a task whose prompt matches no directive has, once done, one envelope,
\* a text: with its flag on and the remote model configured (a key that is set
\* and not empty, the package present) the remote model was called and the text
\* is its answer or its failure message; in every other case the remote model
\* was not called and the text is the local responder's string for the prompt.
C12_TextFromRemoteIffConfigured ==
  \A i \in Tasks :
    Started(i) /\ ~Matches(i) /\ task[i].pc = "done"
      => /\ Cardinality(Delivered(i)) + Cardinality(Queued(i)) = 1
         /\ \A e \in EnvelopesOf(i) : e.type = "str"
         /\ IF RemoteConfigured(i)
            THEN task[i].called /\ EnvelopesOf(i) \subseteq RemoteResults
            ELSE ~task[i].called
                 /\ EnvelopesOf(i) = {local_responder(task[i].prompt, clock)}

\* "hello" with AI mode switched off where the remote model is there: the
\* greeting of the local responder is in the chat
C12_Witness ==
  /\ task[1].prompt = <<"hello">>
  /\ task[1].pc = "done"
  /\ ~task[1].use_openai
  /\ Truthy(env.openai_key) /\ env.openai_pkg
  /\ {chat[k].content : k \in Delivered(1)} = {Str(MSG_HELLO)}

\* p is inside no item of rendered_items (and there is no sign-in box)
Outside(p) == \A k \in DOMAIN rendered_items : ~collidepoint(rendered_items[k].rect, p)

\* C13: with no modal active a click at a point inside no clickable item does
\* nothing: at every such point the handler finds a miss, opens no URL and
\* leaves the modal and signed_in, and the step of such a click leaves the
\* opened URLs, the input buffer, the AI mode, signed_in, the modal, the chat
\* and the item list as they were.
C13_MissedClickDoesNothing ==
  /\ [](image_modal = None =>
          \A p \in ClickPoints :
            Outside(p) =>
              on_click(p) = ClickEffect(image_modal, signed_in, <<>>, "miss"))
  /\ [][fpc = "events" /\ fpc' = "events" /\ image_modal = None /\ last_click' = "miss"
          => UNCHANGED <<ui_opened, input_text, use_openai, signed_in, image_modal, chat,
                         rendered_items>>]_vars

\* a click has missed a link and an image that were on the screen
C13_Witness ==
  /\ last_click = "miss"
  /\ image_modal = None
  /\ \E k \in DOMAIN rendered_items : rendered_items[k].type = "link"
  /\ \E k \in DOMAIN rendered_items : rendered_items[k].type = "image"

\* C14: the sign-in control has a bounding box, and with no modal active a click
\* inside it opens the authentication URL and sets signed_in, without a hit
\* test of the items; so a click on the control leads to signed_in = TRUE.
C14_SignInClickSignsIn ==
  image_modal = None =>
    /\ sign_rect # None
    /\ on_click(<<sign_rect.x, sign_rect.y>>)
         = ClickEffect(image_modal, TRUE, <<ACCOUNTS_URL>>, "sign")

\* what the code gives instead: whatever is clicked, signed_in stays FALSE and
\* the authentication URL is never opened
SignInNeverHappens ==
  /\ signed_in = FALSE
  /\ \A k \in DOMAIN ui_opened : ui_opened[k] # ACCOUNTS_URL

\* C15: the chat is append-only: in every step the chat before is a prefix of
\* the chat after, so no turn is removed, reordered or changed.
C15_ChatAppendOnly ==
  [][/\ Len(chat') >= Len(chat)
     /\ SubSeq(chat', 1, Len(chat)) = chat]_vars

\* the chat has grown by a prompt, by a notice of the Shift key and by a result
C15_Witness ==
  /\ \E k \in DOMAIN chat : chat[k].speaker = "You"
  /\ Notices(chat) # {}
  /\ \E i \in Tasks : Delivered(i) # {}

\* C16: the list a click is tested against holds exactly the clickable items of
\* the most recent layout pass: before the first pass it is empty, after a pass
\* it is what one pass over the chat emits (for some outcome of the image
\* loads), nothing of an earlier pass with it, however many passes have run.
\* (In UISpec the chat stays, so every pass lays out the same chat.)
C16_ItemsOfLastPassOnly ==
  IF Laid
  THEN \E load \in [ImagePaths(chat) -> ImgOutcomes] :
         /\ rendered_items = LayoutChat(chat, load).items
         /\ drawn = LayoutChat(chat, load).drawn
  ELSE rendered_items = <<>>

\* a later frame: a link was clicked in an earlier frame, a pass has run since,
\* and the list holds the one link and the one image
C16_Witness ==
  /\ ui_opened # <<>>
  /\ fpc = "events"
  /\ last_click = "none"
  /\ Len(rendered_items) = 2

\* the cursor after turns Len(chat) down to j were laid out one after the other
RECURSIVE LayDownTo(_, _, _, _)
LayDownTo(st, k, j, load) ==
  IF k < j THEN st
  ELSE LayDownTo(LayoutTurn([st EXCEPT !.turn = k], chat[k], load), k - 1, j, load)
CursorAfter(j, load) ==
  LayDownTo([y |-> PanelBottom - 12, drawn |-> <<>>, items |-> <<>>, turn |-> 0],
            Len(chat), j, load).y

\* C17: a layout pass goes from the newest turn to the oldest of the last 40,
\* and lays out no turn older than the first turn after which the cursor is
\* above the top edge of the panel: what the pass blitted, clickable or not,
\* comes in the order of falling turns, from the last 40 turns, and from no
\* turn older than one that left the cursor above the top edge.
C17_NothingOlderThanCutoff ==
  Laid =>
    \E load \in [ImagePaths(chat) -> ImgOutcomes] :
      /\ drawn = LayoutChat(chat, load).drawn
      /\ \A a, b \in DOMAIN drawn : a < b => drawn[a].turn >= drawn[b].turn
      /\ \A a \in DOMAIN drawn : drawn[a].turn > Len(chat) - TailTurns
      /\ \A j \in DOMAIN chat :
           CursorAfter(j, load) < panel_rect.top
             => \A a \in DOMAIN drawn : drawn[a].turn >= j

\* a pass has stopped at the cutoff: a turn of the chat has no element on the
\* screen, a newer one has elements above the top edge
C17_Witness ==
  /\ Laid
  /\ \E j \in DOMAIN chat :
       /\ \A a \in DOMAIN drawn : drawn[a].turn # j
       /\ \E a \in DOMAIN drawn : drawn[a].turn > j /\ drawn[a].y < panel_rect.top

\* the index in chat of the i-th User turn (0: there is none)
YouTurn(i) ==
  LET ks == {k \in DOMAIN chat :
               /\ chat[k].speaker = "You"
               /\ Cardinality({j \in 1..k : chat[j].speaker = "You"}) = i}
  IN  IF ks = {} THEN 0 ELSE CHOOSE k \in ks : TRUE

\* C18: the User turn of a prompt is in the chat from the moment its worker
\* thread is started, it holds the prompt, and every Bot turn that carries the
\* result of the prompt comes after it in the chat.
C18_UserTurnBeforeResult ==
  \A i \in Tasks :
    Started(i) =>
      /\ YouTurn(i) # 0
      /\ chat[YouTurn(i)].content = Str(task[i].prompt)
      /\ \A k \in Delivered(i) : YouTurn(i) < k

\* both results are in the chat, the second prompt's before the first prompt's
C18_Witness ==
  /\ nthreads = 2
  /\ \E k1 \in Delivered(1), k2 \in Delivered(2) : k2 < k1

\* use_openai as main sets it before the loop
FlagAtStart == env.openai_key # KeyUnset /\ env.openai_pkg
\* the flag of the frame loop when prompt i was submitted: the flag at the start,
\* toggled once for every notice of the Shift key that stands before the User
\* turn of the prompt
FlagAtSubmit(i) ==
  LET n == Cardinality({k \in Notices(chat) : k < YouTurn(i)})
  IN  IF n % 2 = 0 THEN FlagAtStart ELSE ~FlagAtStart

\* C19: a task uses the flag as it was when its prompt was submitted, whatever
\* the Shift key does afterwards: the flag it holds is that one, it calls the
\* remote model only if that one was on, and for a prompt that is no directive
\* it has called the remote model exactly if that one was on and the remote
\* model was configured.
C19_ModeFixedAtSubmission ==
  \A i \in Tasks :
    Started(i) =>
      /\ task[i].use_openai = FlagAtSubmit(i)
      /\ task[i].called => FlagAtSubmit(i)
      /\ task[i].pc = "done" /\ ~Matches(i) =>
           (task[i].called <=> FlagAtSubmit(i) /\ Truthy(env.openai_key) /\ env.openai_pkg)

\* a prompt was submitted with AI mode on, the Shift key switched it off
\* afterwards, and the task has called the remote model
C19_Witness ==
  \E i \in Tasks :
    /\ task[i].pc = "done"
    /\ task[i].called
    /\ ~use_openai
    /\ \E k \in Notices(chat) : k > YouTurn(i)

YouTurns(ch) == {k \in DOMAIN ch : ch[k].speaker = "You"}

\* C20: a task is started only by a step that finds a non-blank buffer, and that
\* step appends one User turn with the text of the buffer, starts one task with
\* that text and empties the buffer; a User turn is appended by such a step
\* only; a step that finds a blank buffer starts no task; so the User turns of
\* the chat are as many as the tasks started.
C20_EnterStartsTaskIffNonBlank ==
  /\ [](Cardinality(YouTurns(chat)) = nthreads)
  /\ [][/\ nthreads' # nthreads =>
             /\ Strip(input_text) # <<>>
             /\ nthreads' = nthreads + 1
             /\ chat' = Append(chat, Turn("You", Str(input_text), 0))
             /\ task' = [task EXCEPT ![nthreads'] = NewTask(input_text, use_openai)]
             /\ task[nthreads'].pc = "idle"
             /\ input_text' = <<>>
        /\ YouTurns(chat') # YouTurns(chat) => nthreads' # nthreads
        /\ Strip(input_text) = <<>> =>
             /\ nthreads' = nthreads
             /\ \A i \in Tasks : Started(i)' = Started(i)]_vars

\* two prompts were submitted, and a buffer that holds a space is left
C20_Witness ==
  /\ nthreads = 2
  /\ Cardinality(YouTurns(chat)) = 2
  /\ input_text = <<" ">>

====
